---- MODULE Spec2Model ----
(***************************************************************************)
(* TransportNSW client (TransportNSW/TransportNSW.py): get_departures and  *)
(* get_trip as state machines over the calls made on one client instance.  *)
(*                                                                         *)
(* Python values are tagged tuples, so that values of different Python     *)
(* types compare unequal: a str is <<"str", tokens>> (tokens: the pieces   *)
(* of the string, a joined string is its pieces with "," between them), an *)
(* int is <<"int", n>>, a bool is <<"bool", b>>, None is <<"NoneType">>.   *)
(* A wire timestamp is <<"ts", n>> when it matches the format, n being the *)
(* instant in seconds, and <<"bad">> when it does not. Instants and the    *)
(* clock are whole seconds.                                                *)
(***************************************************************************)
EXTENDS Integers, Sequences, FiniteSets, TLC

VARIABLES client, defaults, clock, hashOrder, universe, calls

vars == <<client, defaults, clock, hashOrder, universe, calls>>

\* ---------------------------------------------------------------- bounds

\* Longest stopEvents list of a departure reply.
MaxEvents == 3

\* Most legs in a journey of a trip reply.
MaxLegs == 2

\* How many times the clock moves forward (by a minute) during a behaviour.
MaxTicks == 1

\* ---------------------------------------------------------- Python values

PyStr(s) == <<"str", <<s>>>>

PyInt(n) == <<"int", n>>

PyBool(b) == <<"bool", b>>

PyNone == <<"NoneType">>

Ts(n) == <<"ts", n>>

BadTs == <<"bad">>

\* A key the JSON object does not have.
Absent == <<"absent">>

\* sep.join(items) for a sequence of str values: the pieces of every item, in
\* order, with the separator between two items.
RECURSIVE JoinTokens(_)
JoinTokens(items) ==
    IF Len(items) = 0 THEN <<>>
    ELSE IF Len(items) = 1 THEN items[1][2]
    ELSE items[1][2] \o <<",">> \o JoinTokens(Tail(items))

Join(items) == <<"str", JoinTokens(items)>>

\* ------------------------------------------------------------ the record

ATTR_STOP_ID == "stop_id"

ATTR_ROUTE == "route"

ATTR_DUE_IN == "due"

ATTR_DELAY == "delay"

ATTR_REALTIME == "real_time"

ATTR_DESTINATION == "destination"

ATTR_MODE == "mode"

Attrs == {ATTR_STOP_ID, ATTR_ROUTE, ATTR_DUE_IN, ATTR_DELAY, ATTR_REALTIME,
          ATTR_DESTINATION, ATTR_MODE}

\* The default return value: every field 'n/a'.
DefaultInfo == [a \in Attrs |-> PyStr("n/a")]

\* ------------------------------------------------------- pure functions

\* timedelta.seconds of a difference of d seconds: the days are split off
\* (negative differences borrow a day), 0 <= seconds < 86400.
TimedeltaSeconds(d) == d % 86400

\* round(s / 60) for an int s >= 0: Python 3 rounds a half to the even integer.
RoundMinutes(s) ==
    LET q == s \div 60
        r == s % 60
    IN  IF r < 30 THEN q
        ELSE IF r > 30 THEN q + 1
        ELSE IF q % 2 = 0 THEN q ELSE q + 1

get_due(estimated, now) == RoundMinutes(TimedeltaSeconds(estimated - now))

get_delay(planned, estimated) ==
    IF estimated >= planned
    THEN RoundMinutes(TimedeltaSeconds(estimated - planned))
    ELSE RoundMinutes(TimedeltaSeconds(planned - estimated)) * (-1)

get_mode(iconId) ==
    CASE iconId = 1 -> PyStr("Train")
      [] iconId = 4 -> PyStr("Lightrail")
      [] iconId = 5 -> PyStr("Bus")
      [] iconId = 7 -> PyStr("Coach")
      [] iconId = 9 -> PyStr("Ferry")
      [] iconId = 11 -> PyStr("Schoolbus")
      [] OTHER -> PyNone

\* A variant that lets an event leaving at this very instant through.
IsFutureLoose(estimated, now) == estimated >= now

\* `estimated > datetime.utcnow()`: only future leave times.
IsFuture(estimated, now) == estimated > now

\* A variant that takes every status below 400 for a success.
StatusOkLoose(status_code) == status_code < 400

\* `response.status_code != 200` is the failure test.
StatusOk(status_code) == status_code = 200

maxresults == 1

\* ------------------------------------------------------------- the inputs

\* A list argument is a reference: to the function's own default list (the
\* argument was omitted) or to a list of the caller's.
DefaultList == <<"default">>

CallerList(xs) == <<"caller", xs>>

ExcludedArgs == {DefaultList, CallerList(<<1, 9>>)}

DepartureArgs ==
    [stop_id : {PyStr("10101")},
     route : {PyNone, PyStr(""), PyStr("389")},
     destination : {PyNone, PyStr(""), PyStr("Bondi")},
     excluded_means : ExcludedArgs]

TripArgs ==
    [origin_stop_id : {PyStr("10101")},
     destination_stop_id : {PyStr("10102")},
     excluded_means : ExcludedArgs]

\* The arguments of the calls of the shared-client specification.
SharedDepartureArgs ==
    {a \in DepartureArgs : \/ a.destination = PyStr("Bondi") /\ a.route = PyNone
                           \/ a.destination = PyStr("") /\ a.route # PyNone}

SeqsUpTo(S, n) == UNION {[1..k -> S] : k \in 0..n}

\* A stopEvents element. isRealtimeControlled: whether the key is present.
StopEvent(number, name, class, timing) ==
    [number |-> PyStr(number), destination |-> PyStr(name), class |-> class,
     departureTimePlanned |-> timing[1], isRealtimeControlled |-> timing[2],
     departureTimeEstimated |-> timing[3]]

Instants == {-150, 30, 60, 450, 750, 86490}

\* <<departureTimePlanned, isRealtimeControlled present, departureTimeEstimated>>
WideTimings ==
    {<<p, FALSE, Absent>> : p \in {Ts(t) : t \in Instants} \cup {BadTs}}
    \cup {<<Ts(p), TRUE, e>> : p \in Instants,
                               e \in {Ts(t) : t \in Instants} \cup {BadTs, Absent}}

ScanTimings ==
    {<<Ts(-150), FALSE, Absent>>, <<Ts(750), FALSE, Absent>>, <<Ts(-150), TRUE, Ts(60)>>}

WideEvents ==
    {StopEvent(n, d, k, t) : n \in {"389", "M50"}, d \in {"Bondi", "Bondi Junction"},
                             k \in {5, 99}, t \in WideTimings}

ScanEvents ==
    {StopEvent(s[1], d, s[2], t) : s \in {<<"389", 5>>, <<"T1", 1>>},
                                   d \in {"Bondi", "Bondi Junction"}, t \in ScanTimings}

\* What the HTTP collaborator does with a request: it raises, or it returns a
\* response with a status code and a decoded JSON object that has the
\* expected array key (with the array) or lacks it.
TransportError == [kind |-> "error", status_code |-> 0, hasKey |-> FALSE, items |-> <<>>]

Response(status_code, hasKey, items) ==
    [kind |-> "response", status_code |-> status_code, hasKey |-> hasKey, items |-> items]

DepartureBodies ==
    SeqsUpTo(ScanEvents, MaxEvents) \cup {<<e>> : e \in WideEvents}

SmallDepartureBodies ==
    {<<>>} \cup {<<e>> : e \in {x \in ScanEvents : x.number = PyStr("389")}}

DepartureReplies ==
    {TransportError, Response(200, FALSE, <<>>), Response(500, FALSE, <<>>),
     Response(204, FALSE, <<>>)}
    \cup {Response(200, TRUE, b) : b \in DepartureBodies}
    \cup {Response(s, TRUE, b) : s \in {204, 500}, b \in SmallDepartureBodies}

SharedDepartureReplies ==
    {TransportError, Response(200, FALSE, <<>>)}
    \cup {Response(200, TRUE, b) : b \in SmallDepartureBodies}

\* The origin of a leg: what origin.get(key) gives for the four time keys.
Origin(dte, dtp, ate, atp) ==
    [departureTimeEstimated |-> dte, departureTimePlanned |-> dtp,
     arrivalTimeEstimated |-> ate, arrivalTimePlanned |-> atp]

Origins ==
    {Origin(dte, dtp, ate, atp) :
        dte \in {PyNone, BadTs} \cup {Ts(t) : t \in {-150, 30, 450, 86490}},
        dtp \in {PyNone, Ts(30)},
        ate \in {PyNone, Ts(750)},
        atp \in {PyNone, Ts(750)}}

\* isRealtimeControlled: what leg.get("isRealtimeControlled") gives.
Leg(origin, name, class, rt) ==
    [origin |-> origin, name |-> PyStr(name), class |-> class,
     isRealtimeControlled |-> rt]

FirstLegs ==
    {Leg(o, s[1], s[2], rt) : o \in Origins,
                              s \in {<<"T1", 1>>, <<"389", 5>>, <<"X9", 99>>},
                              rt \in {PyNone, PyBool(TRUE), PyBool(FALSE)}}

LaterLegs ==
    {Leg(Origin(PyNone, Ts(750), PyNone, PyNone), s[1], s[2], PyNone) :
        s \in {<<"T1", 1>>, <<"389", 5>>, <<"X9", 99>>}}

Journeys ==
    {<<>>} \cup {<<f>> \o r : f \in FirstLegs, r \in SeqsUpTo(LaterLegs, MaxLegs - 1)}

SmallJourneys ==
    {<<l>> \o r : l \in {x \in FirstLegs :
                            /\ x.origin = Origin(Ts(450), Ts(30), PyNone, PyNone)
                            /\ x.class = 1},
                  r \in {<<>>} \cup {<<x>> : x \in {y \in LaterLegs : y.class = 5}}}

TripReplies ==
    {TransportError, Response(200, FALSE, <<>>), Response(500, FALSE, <<>>),
     Response(204, FALSE, <<>>), Response(200, TRUE, <<>>)}
    \cup {Response(200, TRUE, <<j>>) : j \in Journeys}
    \cup {Response(200, TRUE, <<j, k>>) : j \in SmallJourneys, k \in SmallJourneys}
    \cup {Response(s, TRUE, <<j>>) : s \in {204, 500}, j \in SmallJourneys}

SharedTripReplies ==
    {TransportError, Response(200, TRUE, <<>>)}
    \cup {Response(200, TRUE, <<j>>) : j \in SmallJourneys}

\* What the collaborator may answer to a call of `op`.
Replies(op) ==
    IF universe = "single"
    THEN IF op = "get_departures" THEN DepartureReplies ELSE TripReplies
    ELSE IF op = "get_departures" THEN SharedDepartureReplies ELSE SharedTripReplies

\* What a reading of the clock may give: the last reading, or a minute later.
Readings ==
    {clock} \cup (IF clock < 60 * MaxTicks THEN {clock + 60} ELSE {})

\* ------------------------------------------------------------- the state

Ops == {"get_departures", "get_trip"}

NoResponse == [kind |-> "none", status_code |-> 0, hasKey |-> FALSE, items |-> <<>>]

NoParams == [names |-> <<>>, excludedMeans |-> FALSE, exclMOT |-> {}]

NoEvent == <<>>

\* The frame of a call that has just been made: its locals before the first
\* statement. reads is the history of the clock readings the call has made,
\* each <<place, index of the event, instant>>.
NewCall(op, args) ==
    [op |-> op, args |-> args, pc |-> "start", params |-> NoParams,
     response |-> NoResponse, i |-> 1, event |-> NoEvent, monitor |-> <<>>,
     info |-> DefaultInfo, err |-> "", reads |-> <<>>]

\* __init__(api_key, timeout=10), and the default lists of the two methods.
NewClient == [api_key |-> "KEY", timeout |-> 10]

NewDefaults == [op \in Ops |-> <<>>]

ArgsOf(op) == IF op = "get_departures" THEN DepartureArgs ELSE TripArgs

SharedArgsOf(op) == IF op = "get_departures" THEN SharedDepartureArgs ELSE TripArgs

Init ==
    /\ client = NewClient
    /\ defaults = NewDefaults
    /\ clock = 0
    /\ hashOrder = "unset"
    /\ universe = "single"
    /\ \E op \in Ops : \E args \in ArgsOf(op) : calls = [c \in {1} |-> NewCall(op, args)]

InitShared ==
    /\ client = NewClient
    /\ defaults = NewDefaults
    /\ clock = 0
    /\ hashOrder = "unset"
    /\ universe = "shared"
    /\ \E op1 \in Ops, op2 \in Ops :
         \E a1 \in SharedArgsOf(op1), a2 \in SharedArgsOf(op2) :
            calls = [c \in {1, 2} |-> IF c = 1 THEN NewCall(op1, a1) ELSE NewCall(op2, a2)]

Finished(cl) == cl.pc \in {"done", "raised"}

Returns(cl, info) == [cl EXCEPT !.pc = "done", !.info = info]

Raises(cl, err) == [cl EXCEPT !.pc = "raised", !.err = err]

\* ------------------------------------------------------ query parameters

\* The list an excluded_means argument refers to.
Deref(op, ref) == IF ref = DefaultList THEN defaults[op] ELSE ref[2]

Elems(xs) == {xs[k] : k \in 1..Len(xs)}

\* A variant that appends to the list it was given when that is the default.
DefaultsAfterParamsLeaky(op, ref) ==
    IF ref = DefaultList
    THEN [defaults EXCEPT ![op] = Append(@, 0)]
    ELSE defaults

\* The default lists after the parameters are built: the code reads
\* excluded_means and writes no list.
DefaultsAfterParams(op, ref) == defaults

\* params_excluded_means and params: the block is there only for a non-empty
\* list, with one exclMOT_<x> flag per element.
BuildParamsOf(names, excluded) ==
    [names |-> names,
     excludedMeans |-> Len(excluded) > 0,
     exclMOT |-> IF Len(excluded) > 0 THEN Elems(excluded) ELSE {}]

NamesOf(cl) ==
    IF cl.op = "get_departures" THEN <<cl.args.stop_id>>
    ELSE <<cl.args.origin_stop_id, cl.args.destination_stop_id>>

BuildParams(c) ==
    /\ calls[c].pc = "start"
    /\ LET cl == calls[c]
           excluded == Deref(cl.op, cl.args.excluded_means)
       IN  /\ calls' = [calls EXCEPT ![c] =
                          [cl EXCEPT !.pc = "request",
                                     !.params = BuildParamsOf(NamesOf(cl), excluded)]]
           /\ defaults' = DefaultsAfterParams(cl.op, cl.args.excluded_means)
    /\ UNCHANGED <<client, clock, hashOrder, universe>>

\* ---------------------------------------------------------- the request

\* The branch of get_departures that selects: `destination != ''`, then
\* `route != ''`, then the rest.
Branch(args) ==
    IF args.destination # PyStr("") THEN "destination"
    ELSE IF args.route # PyStr("") THEN "route"
    ELSE "first"

\* Where a `for i in range(len(stopEvents))` loop stands with index i.
LoopPc(branch, i, items) == IF i > Len(items) THEN "return" ELSE branch

AfterResponse(cl, reply) ==
    IF reply.kind = "error" THEN Returns(cl, cl.info)
    ELSE IF ~StatusOk(reply.status_code) THEN Returns(cl, cl.info)
    ELSE IF ~reply.hasKey THEN Returns(cl, cl.info)
    ELSE IF cl.op = "get_trip" THEN [cl EXCEPT !.pc = "journeys"]
    ELSE IF Branch(cl.args) = "first" THEN [cl EXCEPT !.pc = "first"]
    ELSE [cl EXCEPT !.pc = LoopPc(Branch(cl.args), 1, reply.items)]

\* requests.get in its try/except, the status test, response.json() and the
\* test for the array key.
Request(c) ==
    /\ calls[c].pc = "request"
    /\ \E reply \in Replies(calls[c].op) :
          calls' = [calls EXCEPT ![c] =
                      AfterResponse([calls[c] EXCEPT !.response = reply], reply)]
    /\ UNCHANGED <<client, defaults, clock, hashOrder, universe>>

\* ------------------------------------------------------------ parseEvent

\* What parseEvent raises on an event before it reads the clock, "" when it
\* raises nothing: strptime on a timestamp that is not in the format, the
\* missing departureTimeEstimated of a realtime event.
parseEventError(ev) ==
    IF ev.departureTimePlanned = BadTs THEN "ValueError"
    ELSE IF ev.isRealtimeControlled /\ ev.departureTimeEstimated = Absent THEN "KeyError"
    ELSE IF ev.isRealtimeControlled /\ ev.departureTimeEstimated = BadTs THEN "ValueError"
    ELSE ""

\* parseEvent up to its test of the leave time, on an event it raises
\* nothing on: the event read, or None for an event that is not in the future.
parseEvent(ev, now) ==
    LET planned == ev.departureTimePlanned[2]
        estimated == IF ev.isRealtimeControlled
                     THEN ev.departureTimeEstimated[2] ELSE planned
    IN  IF IsFuture(estimated, now)
        THEN [tag |-> "event", number |-> ev.number, planned |-> planned,
              estimated |-> estimated,
              real_time |-> IF ev.isRealtimeControlled THEN PyStr("y") ELSE PyStr("n"),
              destination |-> ev.destination, mode |-> get_mode(ev.class)]
        ELSE [tag |-> "None"]

\* One turn of a selecting loop: the event at i is compared with the filter
\* and, when equal, parsed.
SelectStep(c, branch, found, wanted) ==
    LET cl == calls[c]
        items == cl.response.items
    IN  IF found # wanted
        THEN /\ calls' = [calls EXCEPT ![c] =
                            [cl EXCEPT !.i = cl.i + 1,
                                       !.pc = LoopPc(branch, cl.i + 1, items)]]
             /\ UNCHANGED clock
        ELSE IF parseEventError(items[cl.i]) # ""
        THEN /\ calls' = [calls EXCEPT ![c] = Raises(cl, parseEventError(items[cl.i]))]
             /\ UNCHANGED clock
        ELSE \E now \in Readings :
               /\ clock' = now
               /\ LET r == parseEvent(items[cl.i], now)
                      rd == [cl EXCEPT !.reads = Append(@, <<"parseEvent", cl.i, now>>)]
                  IN  calls' = [calls EXCEPT ![c] =
                        IF r.tag = "None"
                        THEN [rd EXCEPT !.i = cl.i + 1,
                                        !.pc = LoopPc(branch, cl.i + 1, items)]
                        ELSE [rd EXCEPT !.event = r, !.pc = "due"]]

SelectDestination(c) ==
    /\ calls[c].pc = "destination"
    /\ SelectStep(c, "destination",
                  calls[c].response.items[calls[c].i].destination,
                  calls[c].args.destination)
    /\ UNCHANGED <<client, defaults, hashOrder, universe>>

SelectRoute(c) ==
    /\ calls[c].pc = "route"
    /\ SelectStep(c, "route",
                  calls[c].response.items[calls[c].i].number,
                  calls[c].args.route)
    /\ UNCHANGED <<client, defaults, hashOrder, universe>>

\* `event = parseEvent(result, i)`: no such name in the module.
SelectFirst(c) ==
    /\ calls[c].pc = "first"
    /\ calls' = [calls EXCEPT ![c] = Raises(calls[c], "NameError")]
    /\ UNCHANGED <<client, defaults, clock, hashOrder, universe>>

\* The rest of parseEvent for a future event (get_due reads the clock again),
\* then the append to monitor and the break.
GetDueDelay(c) ==
    /\ calls[c].pc = "due"
    /\ \E now \in Readings :
         /\ clock' = now
         /\ LET cl == calls[c]
                e == cl.event
                parsed == <<e.number, get_due(e.estimated, now),
                            get_delay(e.planned, e.estimated), e.planned,
                            e.estimated, e.real_time, e.destination, e.mode>>
                monitor == Append(cl.monitor, parsed)
            IN  calls' = [calls EXCEPT ![c] =
                   [cl EXCEPT !.monitor = monitor,
                              !.reads = Append(@, <<"get_due", cl.i, now>>),
                              !.pc = IF Len(monitor) >= maxresults THEN "return"
                                     ELSE LoopPc(Branch(cl.args), cl.i + 1,
                                                 cl.response.items),
                              !.i = IF Len(monitor) >= maxresults THEN cl.i
                                    ELSE cl.i + 1]]
    /\ UNCHANGED <<client, defaults, hashOrder, universe>>

InfoOf(stop_id, m) ==
    [a \in Attrs |->
        CASE a = ATTR_STOP_ID -> stop_id
          [] a = ATTR_ROUTE -> m[1]
          [] a = ATTR_DUE_IN -> PyInt(m[2])
          [] a = ATTR_DELAY -> PyInt(m[3])
          [] a = ATTR_REALTIME -> m[6]
          [] a = ATTR_DESTINATION -> m[7]
          [] a = ATTR_MODE -> m[8]]

\* `if monitor:` and the return of get_departures.
Return(c) ==
    /\ calls[c].pc = "return"
    /\ LET cl == calls[c]
       IN  calls' = [calls EXCEPT ![c] =
              Returns(cl, IF Len(cl.monitor) > 0
                          THEN InfoOf(cl.args.stop_id, cl.monitor[1])
                          ELSE cl.info)]
    /\ UNCHANGED <<client, defaults, clock, hashOrder, universe>>

\* --------------------------------------------------------------- get_trip

\* `a or b`: a unless it is None.
Or(a, b) == IF a = PyNone THEN b ELSE a

\* What datetime.fromisoformat raises for a value, "" when it parses.
FromIsoError(v) ==
    IF v = PyNone THEN "TypeError" ELSE IF v = BadTs THEN "ValueError" ELSE ""

ModeTable == <<PyStr("Train"), PyStr("Lightrail"), PyStr("Bus"), PyStr("Coach"),
               PyStr("Ferry"), PyStr("Schoolbus")>>

Rank(m) == CHOOSE k \in 1..Len(ModeTable) : ModeTable[k] = m

\* The elements of a set of mode names in the order the process iterates it.
\* The order of a set of str depends on the process's hash seed: two orders
\* are told apart, which are all the orders of a set of at most two names.
RECURSIVE InOrder(_, _)
InOrder(S, order) ==
    IF S = {} THEN <<>>
    ELSE LET m == CHOOSE x \in S : \A y \in S :
                      IF order = "fwd" THEN Rank(x) <= Rank(y) ELSE Rank(x) >= Rank(y)
         IN  <<m>> \o InOrder(S \ {m}, order)

\* What the statements before the clock is read raise on a journey, "" when
\* they raise nothing.
JourneyError(legs) ==
    IF Len(legs) = 0 THEN "IndexError"
    ELSE LET o == legs[1].origin
             e == Or(Or(Or(o.departureTimeEstimated, o.departureTimePlanned),
                        o.arrivalTimeEstimated), o.arrivalTimePlanned)
             p == Or(o.departureTimePlanned, o.arrivalTimePlanned)
         IN  IF FromIsoError(e) # "" THEN FromIsoError(e) ELSE FromIsoError(p)

time_estimated(origin) ==
    Or(Or(Or(origin.departureTimeEstimated, origin.departureTimePlanned),
          origin.arrivalTimeEstimated), origin.arrivalTimePlanned)[2]

time_planned(origin) ==
    Or(origin.departureTimePlanned, origin.arrivalTimePlanned)[2]

\* The record get_trip fills from the first journey.
TripInfo(cl, legs, now, order) ==
    LET origin == legs[1].origin
        rt == legs[1].isRealtimeControlled
    IN  [a \in Attrs |->
           CASE a = ATTR_STOP_ID -> cl.args.origin_stop_id
             [] a = ATTR_ROUTE -> Join([k \in 1..Len(legs) |-> legs[k].name])
             [] a = ATTR_DUE_IN ->
                  PyInt(RoundMinutes(TimedeltaSeconds(time_estimated(origin) - now)))
             [] a = ATTR_DELAY ->
                  PyInt(RoundMinutes(TimedeltaSeconds(
                            time_estimated(origin) - time_planned(origin))))
             [] a = ATTR_REALTIME -> IF rt # PyNone THEN rt ELSE cl.info[ATTR_REALTIME]
             [] a = ATTR_DESTINATION -> cl.args.destination_stop_id
             [] a = ATTR_MODE ->
                  Join(InOrder({get_mode(legs[k].class) : k \in 1..Len(legs)}, order))]

\* `for journey in journeys:` with its return in the first turn.
SelectJourney(c) ==
    /\ calls[c].pc = "journeys"
    /\ LET cl == calls[c]
           journeys == cl.response.items
       IN  IF Len(journeys) = 0
           THEN /\ calls' = [calls EXCEPT ![c] = Returns(cl, cl.info)]
                /\ UNCHANGED <<clock, hashOrder>>
           ELSE IF JourneyError(journeys[1]) # ""
           THEN /\ calls' = [calls EXCEPT ![c] = Raises(cl, JourneyError(journeys[1]))]
                /\ UNCHANGED <<clock, hashOrder>>
           ELSE \E now \in Readings :
                  LET legs == journeys[1]
                      modes == {get_mode(legs[k].class) : k \in 1..Len(legs)}
                      rd == [cl EXCEPT !.reads = Append(@, <<"get_trip", 1, now>>)]
                  IN  /\ clock' = now
                      /\ IF PyNone \in modes
                         THEN /\ calls' = [calls EXCEPT ![c] = Raises(rd, "TypeError")]
                              /\ UNCHANGED hashOrder
                         ELSE \E order \in (IF Cardinality(modes) < 2 THEN {hashOrder}
                                            ELSE IF hashOrder = "unset"
                                                 THEN {"fwd", "rev"}
                                                 ELSE {hashOrder}) :
                                /\ hashOrder' = order
                                /\ calls' = [calls EXCEPT ![c] =
                                      Returns(rd, TripInfo(cl, legs, now, order))]
    /\ UNCHANGED <<client, defaults, universe>>

\* ------------------------------------------------------ the specifications

Next ==
    \/ \E c \in DOMAIN calls : BuildParams(c)
    \/ \E c \in DOMAIN calls : Request(c)
    \/ \E c \in DOMAIN calls : SelectDestination(c)
    \/ \E c \in DOMAIN calls : SelectRoute(c)
    \/ \E c \in DOMAIN calls : SelectFirst(c)
    \/ \E c \in DOMAIN calls : GetDueDelay(c)
    \/ \E c \in DOMAIN calls : Return(c)
    \/ \E c \in DOMAIN calls : SelectJourney(c)

\* One call on a fresh client.
Spec == Init /\ [][Next]_vars

\* Two calls on one client, their steps interleaved.
SpecShared == InitShared /\ [][Next]_vars

\* ------------------------------------------------------------ the claims

Ok200(cl) ==
    cl.response.kind = "response" /\ cl.response.status_code = 200 /\ cl.response.hasKey

FilterSupplied(v) == v # PyNone /\ v # PyStr("")

\* A stop event whose timestamps are in the wire format.
WellFormed(ev) ==
    /\ ev.departureTimePlanned[1] = "ts"
    /\ ev.isRealtimeControlled => ev.departureTimeEstimated[1] = "ts"

AllWellFormed(items) == \A i \in 1..Len(items) : WellFormed(items[i])

\* The estimated departure of a well-formed stop event.
Est(ev) ==
    IF ev.isRealtimeControlled THEN ev.departureTimeEstimated[2]
    ELSE ev.departureTimePlanned[2]

\* The instants at which the call examined the event at i (none or one).
ExaminedAt(cl, i) ==
    {cl.reads[k][3] : k \in {j \in 1..Len(cl.reads) :
                                cl.reads[j][1] = "parseEvent" /\ cl.reads[j][2] = i}}

\* The instant of the call's last reading of the clock.
LastReading(cl) == cl.reads[Len(cl.reads)][3]

Min(S) == CHOOSE x \in S : \A y \in S : x <= y

\* C1: get_departures and get_trip always end by returning a record with all
\* seven fields; no call ends in a raised error.
C1_Total ==
    \A c \in DOMAIN calls :
        /\ calls[c].pc # "raised"
        /\ calls[c].pc = "done" => DOMAIN calls[c].info = Attrs

\* C2: after a transport error, a status other than 200, or a 200 body that
\* lacks the array key, the call has returned the sentinel record, whatever
\* its arguments.
C2_FailureGivesSentinel ==
    \A c \in DOMAIN calls :
        LET cl == calls[c]
        IN  (\/ cl.response.kind = "error"
             \/ cl.response.kind = "response" /\ cl.response.status_code # 200
             \/ cl.response.kind = "response" /\ ~cl.response.hasKey)
            => cl.pc = "done" /\ cl.info = DefaultInfo

\* A departure call with a destination filter got a 500 whose body holds a
\* future event to that destination, and has returned.
C2_Witness ==
    \E c \in DOMAIN calls :
        LET cl == calls[c]
        IN  /\ cl.pc = "done"
            /\ cl.op = "get_departures"
            /\ cl.response.kind = "response"
            /\ cl.response.status_code = 500
            /\ cl.response.hasKey
            /\ Len(cl.response.items) > 0
            /\ cl.response.items[1].destination = cl.args.destination
            /\ Est(cl.response.items[1]) > clock

FutureEvents(items) == {i \in 1..Len(items) : Est(items[i]) > clock}

Settled(items) == \A i \in 1..Len(items) : Est(items[i]) > clock \/ Est(items[i]) <= 0

\* C4: with the destination argument omitted and a route filter, the record
\* of get_departures is that of the first future event of that route: when
\* the 200 reply holds an event of the route that is in the future, the call
\* returns a record with that route and with the destination and mode of the
\* first such event.
C4_RouteFilterWithoutDestination ==
    \A c \in DOMAIN calls :
        LET cl == calls[c]
            items == cl.response.items
            ofRoute == {i \in FutureEvents(items) : items[i].number = cl.args.route}
        IN  (/\ Finished(cl)
             /\ cl.op = "get_departures"
             /\ cl.args.destination = PyNone
             /\ FilterSupplied(cl.args.route)
             /\ Ok200(cl)
             /\ AllWellFormed(items)
             /\ ofRoute # {})
            => /\ cl.pc = "done"
               /\ cl.info[ATTR_ROUTE] = cl.args.route
               /\ Settled(items) =>
                    /\ cl.info[ATTR_DESTINATION] = items[Min(ofRoute)].destination
                    /\ cl.info[ATTR_MODE] = get_mode(items[Min(ofRoute)].class)

\* C5: with neither filter (both omitted, or both empty) and a 200 reply
\* carrying stopEvents, get_departures returns the record of the first
\* future event, and the sentinel only when no event is in the future.
C5_NoFilterSelectsFirstFuture ==
    \A c \in DOMAIN calls :
        LET cl == calls[c]
            items == cl.response.items
        IN  (/\ Finished(cl)
             /\ cl.op = "get_departures"
             /\ \/ cl.args.destination = PyNone /\ cl.args.route = PyNone
                \/ cl.args.destination = PyStr("") /\ cl.args.route = PyStr("")
             /\ Ok200(cl)
             /\ AllWellFormed(items))
            => /\ cl.pc = "done"
               /\ FutureEvents(items) # {} => cl.info # DefaultInfo
               /\ (FutureEvents(items) # {} /\ Settled(items)) =>
                    cl.info[ATTR_ROUTE] = items[Min(FutureEvents(items))].number
               /\ (\A i \in 1..Len(items) : Est(items[i]) <= 0) => cl.info = DefaultInfo

\* estimated - planned, in seconds, of what a returned non-sentinel record
\* was made from: the selected event, or the first leg of the first journey.
SelectedDiff(cl) ==
    IF cl.op = "get_departures" THEN cl.monitor[1][5] - cl.monitor[1][4]
    ELSE time_estimated(cl.response.items[1][1].origin)
         - time_planned(cl.response.items[1][1].origin)

\* The estimated time of what a returned non-sentinel record was made from.
SelectedEstimated(cl) ==
    IF cl.op = "get_departures" THEN cl.monitor[1][5]
    ELSE time_estimated(cl.response.items[1][1].origin)

\* C6: the delay returned is estimated - planned in seconds, divided by 60
\* and rounded to the nearest minute, with its sign (at most half a minute
\* from the difference), for every pair of times.
C6_DelayIsSignedNearestMinute ==
    \A c \in DOMAIN calls :
        LET cl == calls[c]
        IN  (cl.pc = "done" /\ cl.info # DefaultInfo)
            => /\ cl.info[ATTR_DELAY][1] = "int"
               /\ 60 * cl.info[ATTR_DELAY][2] - SelectedDiff(cl) \in -30..30

\* C7: for an estimated time s > 0 seconds after the instant read, the due-in
\* value returned is s / 60 rounded to the nearest minute, halves up.
C7_DueIsNearestMinuteHalfUp ==
    \A c \in DOMAIN calls :
        LET cl == calls[c]
            s == SelectedEstimated(cl) - LastReading(cl)
        IN  (cl.pc = "done" /\ cl.info # DefaultInfo /\ s > 0)
            => cl.info[ATTR_DUE_IN] = PyInt((s + 30) \div 60)

\* C8: the mode of a non-sentinel record is a string: an unknown code gives
\* an 'unknown' string, never a missing value or the raw code.
C8_ModeIsAlwaysString ==
    \A c \in DOMAIN calls :
        LET cl == calls[c]
        IN  (cl.pc = "done" /\ cl.info # DefaultInfo) => cl.info[ATTR_MODE][1] = "str"

\* Whether the raw event (the first leg of the first journey) of a returned
\* non-sentinel record carries the realtime-controlled indicator.
SelectedIsRealtime(cl) ==
    IF cl.op = "get_departures" THEN cl.response.items[cl.i].isRealtimeControlled
    ELSE cl.response.items[1][1].isRealtimeControlled # PyNone

\* C9: in a non-sentinel record the realtime field is the true value exactly
\* when the raw event carries the indicator and the false value otherwise, and
\* then the estimated time used is the planned time; the field is never left
\* at 'n/a'.
C9_RealtimeFlagIsSet ==
    \A c \in DOMAIN calls :
        LET cl == calls[c]
        IN  (cl.pc = "done" /\ cl.info # DefaultInfo)
            => /\ cl.info[ATTR_REALTIME] # PyStr("n/a")
               /\ SelectedIsRealtime(cl)
                    <=> cl.info[ATTR_REALTIME] \in {PyStr("y"), PyBool(TRUE)}
               /\ ~SelectedIsRealtime(cl)
                    <=> cl.info[ATTR_REALTIME] \in {PyStr("n"), PyBool(FALSE)}
               /\ ~SelectedIsRealtime(cl) => SelectedDiff(cl) = 0

SameInputs(a, b) ==
    /\ a.op = b.op
    /\ a.args = b.args
    /\ a.response = b.response
    /\ a.reads = b.reads

\* C10: calls that share the client leave its api_key and timeout and the
\* default excluded-modes lists as they were, and two finished calls with the
\* same arguments, the same reply and the same clock readings have ended the
\* same way with the same record, however their steps were interleaved.
C10_CallsAreIndependent ==
    /\ client = NewClient
    /\ defaults = NewDefaults
    /\ \A c \in DOMAIN calls : \A d \in DOMAIN calls :
          (Finished(calls[c]) /\ Finished(calls[d]) /\ SameInputs(calls[c], calls[d]))
          => /\ calls[c].pc = calls[d].pc
             /\ calls[c].info = calls[d].info
             /\ calls[c].err = calls[d].err

\* Two calls that left the excluded modes to the default list have both
\* returned the same non-sentinel record from the same inputs.
C10_Witness ==
    /\ DOMAIN calls = {1, 2}
    /\ calls[1].pc = "done"
    /\ calls[2].pc = "done"
    /\ calls[1].args.excluded_means = DefaultList
    /\ SameInputs(calls[1], calls[2])
    /\ calls[1].info # DefaultInfo
    /\ calls[1].info = calls[2].info

====
